---- MODULE Spec2Model ----
(***************************************************************************)
(* Model of the tool registry of src/src/lib.rs: the two mappings of       *)
(* ToolRegistry, the dynamic loader's table of open library handles, the   *)
(* files of the scanned directory, and the single calling thread's         *)
(* position inside load_from_dir, load_library, unload_library, get_tool   *)
(* and tools_specs.  A path is modelled by the characters of its file      *)
(* name; the directory prefix plays no part in any decision of the code.   *)
(***************************************************************************)
EXTENDS Integers, Sequences, FiniteSets, TLC

\* ------------------------------------------------------------------ bounds
MaxTime == 2

\* ------------------------------------------------------- files and plugins
PathA == <<"a", ".", "s", "o">>
PathB == <<"b", ".", "S", "O">>
PathC == <<"c", ".", "t", "x", "t">>
PathD == <<"s", "o">>

DirEntries == {PathA, PathB, PathC, PathD}
Writable == {PathA, PathB}
LoadPaths == {PathA, PathB}

Times == 1..MaxTime

PluginAlpha == [name |-> "alpha", description |-> "first tool", parameters |-> "schemaA"]
PluginBeta == [name |-> "beta", description |-> "second tool", parameters |-> "schemaB"]
PluginGamma == [name |-> "gamma", description |-> "third tool", parameters |-> "schemaC"]
\* the tools the successive versions of a file may export
Versions(p) == IF p = PathA THEN {PluginAlpha} ELSE {PluginAlpha, PluginBeta}
Names == {"alpha", "beta", "gamma", "delta"}

NoLib == 0
NoPath == <<>>
NoTool == [name |-> "", description |-> "", parameters |-> "", lib |-> NoLib]
EmptyMap == <<>>

\* ------------------------------------------------------------ map helpers
Put(f, k, v) == [x \in (DOMAIN f) \cup {k} |-> IF x = k THEN v ELSE f[x]]
Remove(f, k) == [x \in (DOMAIN f) \ {k} |-> f[x]]

\* ------------------------------------------------- platform file detection
\* u8::to_ascii_lowercase on the letters that occur in the file names
ToAsciiLower(c) ==
    CASE c = "S" -> "s"
      [] c = "O" -> "o"
      [] c = "T" -> "t"
      [] c = "X" -> "x"
      [] OTHER -> c

\* a comparison that distinguishes upper and lower case
EqExactCase(s, t) == s = t

EqIgnoreAsciiCase(s, t) ==
    /\ Len(s) = Len(t)
    /\ \A i \in 1..Len(s) : ToAsciiLower(s[i]) = ToAsciiLower(t[i])

\* index of the final '.' of the file name, 0 when there is none
LastDot(p) ==
    LET dots == {i \in 1..Len(p) : p[i] = "."}
    IN IF dots = {} THEN 0 ELSE CHOOSE i \in dots : \A j \in dots : j <= i

\* Path::extension(..).and_then(to_str).unwrap_or(""): no dot, or only a
\* leading dot, gives no extension
Extension(p) ==
    IF LastDot(p) <= 1 THEN <<>> ELSE SubSeq(p, LastDot(p) + 1, Len(p))

is_shared_library(p) == EqIgnoreAsciiCase(Extension(p), <<"s", "o">>)

\* ---------------------------------------------------------------- queries
\* the spec with the description where the parameter schema belongs
ToolSpecSwapped(tool) ==
    [type |-> "function",
     function |-> [name |-> tool.name,
                   description |-> tool.description,
                   parameters |-> tool.description]]

ToolSpec(tool) ==
    [type |-> "function",
     function |-> [name |-> tool.name,
                   description |-> tool.description,
                   parameters |-> tool.parameters]]

\* the orders in which a HashMap with these keys may be iterated
Orders(S) ==
    {s \in [1..Cardinality(S) -> S] : \A i, j \in 1..Cardinality(S) : s[i] = s[j] => i = j}

\* Box::from_raw(constructor()) for a library image h built from plugin pl
NewTool(pl, h) ==
    [name |-> pl.name, description |-> pl.description,
     parameters |-> pl.parameters, lib |-> h]

\* a comparison with the operands exchanged
UpToDateReversed(m, prev) == prev <= m

\* a comparison that reloads a file of unchanged time
UpToDateStrict(m, prev) == m < prev

\* line 60: the file is not newer than the recorded version
UpToDate(m, prev) == m <= prev

VARIABLES
    tools,              \* ToolRegistry.tools: name -> tool instance
    loaded_libraries,   \* ToolRegistry.loaded_libraries: path -> (time, handle)
    open,               \* the loader's open handles: handle -> (path, plugin)
    fs,                 \* the directory's files: path -> (mtime, plugin)
    removed,            \* timestamp of the record unload_library last removed, per path
    everUnloaded,       \* unload_library has removed a record since construction
    pc,                 \* position of the calling thread
    stack,              \* return positions of the enclosing calls
    path,               \* argument of load_library / unload_library
    modified,           \* load_library's local `modified`
    lib,                \* load_library's local `lib`
    tool,               \* load_library's local `tool`
    library,            \* unload_library's local `library`
    entries,            \* directory entries read_dir has not yet yielded
    entry,              \* load_from_dir's local `path`
    result,             \* Result returned by the call that just finished
    arg,                \* get_tool's argument
    found,              \* get_tool's return value
    specs,              \* tools_specs' return value
    pre,                \* both mappings when the public call began
    llPre,              \* both mappings when load_library began
    ulPre               \* both mappings when unload_library began

vars == <<tools, loaded_libraries, open, fs, removed, everUnloaded, pc, stack,
          path, modified, lib, tool, library, entries, entry, result, arg,
          found, specs, pre, llPre, ulPre>>

registry == <<tools, loaded_libraries>>
history == <<removed, everUnloaded>>
llLocals == <<modified, lib, tool>>
scanLocals == <<entries, entry>>
queryVars == <<arg, found, specs>>
snapshots == <<pre, llPre, ulPre>>

NoSnapshot == [tools |-> EmptyMap, loaded |-> EmptyMap, removed |-> EmptyMap, open |-> {}]
Snapshot == [tools |-> tools, loaded |-> loaded_libraries, removed |-> removed,
             open |-> DOMAIN open]

\* every handle the program or the loader still refers to
UsedHandles ==
    DOMAIN open \cup pre.open \cup llPre.open \cup ulPre.open
      \cup {tools[n].lib : n \in DOMAIN tools}
      \cup {loaded_libraries[p].lib : p \in DOMAIN loaded_libraries}
      \cup ({lib, library} \ {NoLib})

\* the handle Library::new returns: the loader may reuse the handle of an
\* image that was closed, so the least handle nothing refers to is taken
FreshHandle ==
    CHOOSE h \in 1..(Cardinality(UsedHandles) + 1) :
        /\ h \notin UsedHandles
        /\ \A g \in 1..(h - 1) : g \in UsedHandles

\* ToolRegistry::new, with the directory's files as first written
Init ==
    /\ tools = EmptyMap
    /\ loaded_libraries = EmptyMap
    /\ open = EmptyMap
    /\ fs = [p \in DirEntries |->
                IF p = PathA THEN [mtime |-> 1, plugin |-> PluginAlpha]
                ELSE IF p = PathB THEN [mtime |-> 1, plugin |-> PluginBeta]
                ELSE [mtime |-> 1, plugin |-> PluginGamma]]
    /\ removed = [p \in DirEntries |-> 0]
    /\ everUnloaded = FALSE
    /\ pc = "idle"
    /\ stack = <<>>
    /\ path = NoPath
    /\ modified = 0
    /\ lib = NoLib
    /\ tool = NoTool
    /\ library = NoLib
    /\ entries = {}
    /\ entry = NoPath
    /\ result = "None"
    /\ arg = ""
    /\ found = [some |-> FALSE, tool |-> NoTool]
    /\ specs = <<>>
    /\ pre = NoSnapshot
    /\ llPre = NoSnapshot
    /\ ulPre = NoSnapshot

\* ------------------------------------------------------------ environment
\* the file p is rewritten or touched between two calls of the registry
WriteFile(p, t, pl) ==
    /\ pc = "idle"
    /\ fs[p] # [mtime |-> t, plugin |-> pl]
    /\ fs' = [fs EXCEPT ![p] = [mtime |-> t, plugin |-> pl]]
    /\ UNCHANGED <<registry, open, history, pc, stack, path, llLocals, library,
                   scanLocals, result, queryVars, snapshots>>

\* ---------------------------------------------------------- load_from_dir
CallLoadFromDir ==
    /\ pc = "idle"
    /\ pc' = "lfd_read_dir"
    /\ pre' = Snapshot
    /\ UNCHANGED <<registry, open, fs, history, stack, path, llLocals, library,
                   scanLocals, result, queryVars, llPre, ulPre>>

\* line 37: std::fs::read_dir(dir_path)?
LFD_ReadDir ==
    /\ pc = "lfd_read_dir"
    /\ \E ok \in BOOLEAN :
          IF ok
          THEN /\ entries' = DirEntries
               /\ pc' = "lfd_next"
               /\ UNCHANGED result
          ELSE /\ result' = "Err"
               /\ pc' = "lfd_ret"
               /\ UNCHANGED entries
    /\ UNCHANGED <<registry, open, fs, history, stack, path, llLocals, library,
                   entry, queryVars, snapshots>>

\* lines 39-41: the iterator ends, yields an entry in any order, or fails
LFD_Next ==
    /\ pc = "lfd_next"
    /\ IF entries = {}
       THEN /\ result' = "Ok"
            /\ pc' = "lfd_ret"
            /\ UNCHANGED scanLocals
       ELSE \/ \E e \in entries :
                  /\ entry' = e
                  /\ entries' = entries \ {e}
                  /\ pc' = "lfd_classify"
                  /\ UNCHANGED result
            \/ /\ result' = "Err"
               /\ pc' = "lfd_ret"
               /\ UNCHANGED scanLocals
    /\ UNCHANGED <<registry, open, fs, history, stack, path, llLocals, library,
                   queryVars, snapshots>>

\* lines 43-44: only a shared library is handed to load_library
LFD_Classify ==
    /\ pc = "lfd_classify"
    /\ IF is_shared_library(entry)
       THEN /\ path' = entry
            /\ stack' = <<"lfd_after_load">> \o stack
            /\ llPre' = Snapshot
            /\ pc' = "ll_stat"
       ELSE /\ pc' = "lfd_next"
            /\ UNCHANGED <<path, stack, llPre>>
    /\ UNCHANGED <<registry, open, fs, history, llLocals, library, scanLocals,
                   result, queryVars, pre, ulPre>>

\* a scan that goes on to the next entry after a failed load
LFD_AfterLoad_Skip ==
    /\ pc = "lfd_after_load"
    /\ pc' = "lfd_next"
    /\ result' = "None"
    /\ UNCHANGED <<registry, open, fs, history, stack, path, llLocals, library,
                   scanLocals, queryVars, snapshots>>

\* line 44: the `?` after load_library
LFD_AfterLoad ==
    /\ pc = "lfd_after_load"
    /\ IF result = "Err"
       THEN /\ pc' = "lfd_ret"
            /\ UNCHANGED result
       ELSE /\ pc' = "lfd_next"
            /\ result' = "None"
    /\ UNCHANGED <<registry, open, fs, history, stack, path, llLocals, library,
                   scanLocals, queryVars, snapshots>>

LFD_Return ==
    /\ pc = "lfd_ret"
    /\ pc' = "idle"
    /\ entries' = {}
    /\ entry' = NoPath
    /\ result' = "None"
    /\ pre' = NoSnapshot
    /\ UNCHANGED <<registry, open, fs, history, stack, path, llLocals, library,
                   queryVars, llPre, ulPre>>

\* ----------------------------------------------------------- load_library
CallLoadLibrary(p) ==
    /\ pc = "idle"
    /\ path' = p
    /\ pc' = "ll_stat"
    /\ pre' = Snapshot
    /\ llPre' = Snapshot
    /\ UNCHANGED <<registry, open, fs, history, stack, llLocals, library,
                   scanLocals, result, queryVars, ulPre>>

\* a load that forgets the record of a file whose metadata it cannot read
LL_Stat_ForgetUnreadable ==
    /\ pc = "ll_stat"
    /\ \E ok \in BOOLEAN :
          IF ~ok
          THEN /\ result' = "Err"
               /\ pc' = "ll_ret"
               /\ loaded_libraries' = Remove(loaded_libraries, path)
               /\ UNCHANGED <<modified, stack, ulPre>>
          ELSE /\ modified' = fs[path].mtime
               /\ UNCHANGED loaded_libraries
               /\ IF path \in DOMAIN loaded_libraries
                  THEN IF UpToDate(fs[path].mtime, loaded_libraries[path].modified)
                       THEN /\ result' = "Ok"
                            /\ pc' = "ll_ret"
                            /\ UNCHANGED <<stack, ulPre>>
                       ELSE /\ stack' = <<"ll_open">> \o stack
                            /\ ulPre' = Snapshot
                            /\ pc' = "ul_remove"
                            /\ UNCHANGED result
                  ELSE /\ pc' = "ll_open"
                       /\ UNCHANGED <<result, stack, ulPre>>
    /\ UNCHANGED <<tools, open, fs, history, path, lib, tool, library,
                   scanLocals, queryVars, pre, llPre>>

\* lines 56-65: read the modification time, return early when the record is
\* up to date, unload the old version when reloading
LL_Stat ==
    /\ pc = "ll_stat"
    /\ \E ok \in BOOLEAN :
          IF ~ok
          THEN /\ result' = "Err"
               /\ pc' = "ll_ret"
               /\ UNCHANGED <<modified, stack, ulPre>>
          ELSE /\ modified' = fs[path].mtime
               /\ IF path \in DOMAIN loaded_libraries
                  THEN IF UpToDate(fs[path].mtime, loaded_libraries[path].modified)
                       THEN /\ result' = "Ok"
                            /\ pc' = "ll_ret"
                            /\ UNCHANGED <<stack, ulPre>>
                       ELSE /\ stack' = <<"ll_open">> \o stack
                            /\ ulPre' = Snapshot
                            /\ pc' = "ul_remove"
                            /\ UNCHANGED result
                  ELSE /\ pc' = "ll_open"
                       /\ UNCHANGED <<result, stack, ulPre>>
    /\ UNCHANGED <<registry, open, fs, history, path, lib, tool, library,
                   scanLocals, queryVars, pre, llPre>>

\* line 68: Library::new(path)?
LL_Open ==
    /\ pc = "ll_open"
    /\ \E ok \in BOOLEAN :
          IF ok
          THEN /\ lib' = FreshHandle
               /\ open' = Put(open, FreshHandle, [path |-> path, plugin |-> fs[path].plugin])
               /\ pc' = "ll_sym"
               /\ UNCHANGED result
          ELSE /\ result' = "Err"
               /\ pc' = "ll_ret"
               /\ UNCHANGED <<lib, open>>
    /\ UNCHANGED <<registry, fs, history, stack, path, modified, tool, library,
                   scanLocals, queryVars, snapshots>>

\* line 69: lib.get(b"create_tool")?; on failure the local `lib` is dropped
LL_Sym ==
    /\ pc = "ll_sym"
    /\ \E ok \in BOOLEAN :
          IF ok
          THEN /\ pc' = "ll_construct"
               /\ UNCHANGED <<lib, open, result>>
          ELSE /\ open' = Remove(open, lib)
               /\ lib' = NoLib
               /\ result' = "Err"
               /\ pc' = "ll_ret"
    /\ UNCHANGED <<registry, fs, history, stack, path, modified, tool,
                   library, scanLocals, queryVars, snapshots>>

\* lines 71-73: the constructor of the opened image builds the tool
LL_Construct ==
    /\ pc = "ll_construct"
    /\ tool' = NewTool(open[lib].plugin, lib)
    /\ pc' = "ll_insert_tool"
    /\ UNCHANGED <<registry, open, fs, history, stack, path, modified, lib,
                   library, scanLocals, result, queryVars, snapshots>>

\* an insert that keeps the tool already registered under the name
LL_InsertTool_KeepOld ==
    /\ pc = "ll_insert_tool"
    /\ tools' = IF tool.name \in DOMAIN tools THEN tools ELSE Put(tools, tool.name, tool)
    /\ pc' = "ll_insert_lib"
    /\ UNCHANGED <<loaded_libraries, open, fs, history, stack, path, llLocals,
                   library, scanLocals, result, queryVars, snapshots>>

\* line 75: self.tools.insert(name, tool)
LL_InsertTool ==
    /\ pc = "ll_insert_tool"
    /\ tools' = Put(tools, tool.name, tool)
    /\ pc' = "ll_insert_lib"
    /\ UNCHANGED <<loaded_libraries, open, fs, history, stack, path, llLocals,
                   library, scanLocals, result, queryVars, snapshots>>

\* lines 76-79: self.loaded_libraries.insert(path, (modified, lib)); a value
\* the insert displaces is dropped, which closes its handle
LL_InsertLib ==
    /\ pc = "ll_insert_lib"
    /\ loaded_libraries' = Put(loaded_libraries, path, [modified |-> modified, lib |-> lib])
    /\ open' = IF path \in DOMAIN loaded_libraries
               THEN Remove(open, loaded_libraries[path].lib)
               ELSE open
    /\ removed' = [removed EXCEPT ![path] = 0]
    /\ result' = "Ok"
    /\ pc' = "ll_ret"
    /\ UNCHANGED <<tools, fs, everUnloaded, stack, path, llLocals, library,
                   scanLocals, queryVars, snapshots>>

LL_Return ==
    /\ pc = "ll_ret"
    /\ IF stack = <<>>
       THEN /\ pc' = "idle"
            /\ result' = "None"
            /\ pre' = NoSnapshot
            /\ UNCHANGED stack
       ELSE /\ pc' = Head(stack)
            /\ stack' = Tail(stack)
            /\ UNCHANGED <<result, pre>>
    /\ path' = NoPath
    /\ modified' = 0
    /\ lib' = NoLib
    /\ tool' = NoTool
    /\ llPre' = NoSnapshot
    /\ UNCHANGED <<registry, open, fs, history, library, scanLocals, queryVars,
                   ulPre>>

\* --------------------------------------------------------- unload_library
CallUnloadLibrary(p) ==
    /\ pc = "idle"
    /\ path' = p
    /\ pc' = "ul_remove"
    /\ pre' = Snapshot
    /\ ulPre' = Snapshot
    /\ UNCHANGED <<registry, open, fs, history, stack, llLocals, library,
                   scanLocals, result, queryVars, llPre>>

\* an unload that clears the tools whether or not the path has a record
UL_Remove_Always ==
    /\ pc = "ul_remove"
    /\ IF path \in DOMAIN loaded_libraries
       THEN /\ library' = loaded_libraries[path].lib
            /\ loaded_libraries' = Remove(loaded_libraries, path)
            /\ removed' = [removed EXCEPT ![path] = loaded_libraries[path].modified]
            /\ everUnloaded' = TRUE
       ELSE UNCHANGED <<library, loaded_libraries, history>>
    /\ pc' = "ul_clear"
    /\ UNCHANGED <<tools, open, fs, stack, path, llLocals, scanLocals, result,
                   queryVars, snapshots>>

\* an unload that looks the record up without removing it
UL_Remove_KeepRecord ==
    /\ pc = "ul_remove"
    /\ IF path \in DOMAIN loaded_libraries
       THEN /\ library' = loaded_libraries[path].lib
            /\ pc' = "ul_clear"
       ELSE /\ pc' = "ul_ret"
            /\ UNCHANGED library
    /\ UNCHANGED <<registry, open, fs, history, stack, path, llLocals, scanLocals,
                   result, queryVars, snapshots>>

\* line 83: self.loaded_libraries.remove(path)
UL_Remove ==
    /\ pc = "ul_remove"
    /\ IF path \in DOMAIN loaded_libraries
       THEN /\ library' = loaded_libraries[path].lib
            /\ loaded_libraries' = Remove(loaded_libraries, path)
            /\ removed' = [removed EXCEPT ![path] = loaded_libraries[path].modified]
            /\ everUnloaded' = TRUE
            /\ pc' = "ul_clear"
       ELSE /\ pc' = "ul_ret"
            /\ UNCHANGED <<library, loaded_libraries, history>>
    /\ UNCHANGED <<tools, open, fs, stack, path, llLocals, scanLocals, result,
                   queryVars, snapshots>>

\* a filter that selects the tools built from the library being unloaded
tools_to_remove_owned == {n \in DOMAIN tools : tools[n].lib = library}

\* a filter that selects no tool
tools_to_remove_none == {n \in DOMAIN tools : FALSE}

\* lines 85-92: the filter closure returns true for every tool
tools_to_remove == {n \in DOMAIN tools : TRUE}

\* lines 85-96: every name collected is removed from self.tools
UL_Clear ==
    /\ pc = "ul_clear"
    /\ tools' = [n \in (DOMAIN tools) \ tools_to_remove |-> tools[n]]
    /\ pc' = "ul_drop"
    /\ UNCHANGED <<loaded_libraries, open, fs, history, stack, path, llLocals,
                   library, scanLocals, result, queryVars, snapshots>>

\* an unload that leaks the handle instead of closing it
UL_Drop_Leak ==
    /\ pc = "ul_drop"
    /\ pc' = "ul_ret"
    /\ UNCHANGED <<registry, open, fs, history, stack, path, llLocals,
                   library, scanLocals, result, queryVars, snapshots>>

\* line 99: `library` goes out of scope and the handle is closed
UL_Drop ==
    /\ pc = "ul_drop"
    /\ open' = Remove(open, library)
    /\ pc' = "ul_ret"
    /\ UNCHANGED <<registry, fs, history, stack, path, llLocals,
                   library, scanLocals, result, queryVars, snapshots>>

UL_Return ==
    /\ pc = "ul_ret"
    /\ IF stack = <<>>
       THEN /\ pc' = "idle"
            /\ path' = NoPath
            /\ pre' = NoSnapshot
            /\ UNCHANGED stack
       ELSE /\ pc' = Head(stack)
            /\ stack' = Tail(stack)
            /\ UNCHANGED <<path, pre>>
    /\ library' = NoLib
    /\ ulPre' = NoSnapshot
    /\ UNCHANGED <<registry, open, fs, history, llLocals, scanLocals, result,
                   queryVars, llPre>>

\* ---------------------------------------------------------- query surface
\* a lookup that never finds a tool
GetToolAbsent(m, n) == [some |-> FALSE, tool |-> NoTool]

\* line 52: self.tools.get(name)
GetTool(m, n) ==
    IF n \in DOMAIN m
    THEN [some |-> TRUE, tool |-> m[n]]
    ELSE [some |-> FALSE, tool |-> NoTool]

\* lines 24-33: one spec per entry, in the map's iteration order
ToolsSpecs(m, order) == [i \in 1..Len(order) |-> ToolSpec(m[order[i]])]

CallGetTool(n) ==
    /\ pc = "idle"
    /\ arg' = n
    /\ pc' = "gt"
    /\ pre' = Snapshot
    /\ UNCHANGED <<registry, open, fs, history, stack, path, llLocals, library,
                   scanLocals, result, found, specs, llPre, ulPre>>

\* a lookup that takes the tool out of the mapping
GT_Get_Take ==
    /\ pc = "gt"
    /\ found' = GetTool(tools, arg)
    /\ tools' = Remove(tools, arg)
    /\ pc' = "gt_ret"
    /\ UNCHANGED <<loaded_libraries, open, fs, history, stack, path, llLocals, library,
                   scanLocals, result, arg, specs, snapshots>>

\* line 52: the lookup of get_tool
GT_Get ==
    /\ pc = "gt"
    /\ found' = GetTool(tools, arg)
    /\ pc' = "gt_ret"
    /\ UNCHANGED <<registry, open, fs, history, stack, path, llLocals, library,
                   scanLocals, result, arg, specs, snapshots>>

CallToolsSpecs ==
    /\ pc = "idle"
    /\ pc' = "ts"
    /\ pre' = Snapshot
    /\ UNCHANGED <<registry, open, fs, history, stack, path, llLocals, library,
                   scanLocals, result, queryVars, llPre, ulPre>>

TS_Collect ==
    /\ pc = "ts"
    /\ \E order \in Orders(DOMAIN tools) : specs' = ToolsSpecs(tools, order)
    /\ pc' = "ts_ret"
    /\ UNCHANGED <<registry, open, fs, history, stack, path, llLocals, library,
                   scanLocals, result, arg, found, snapshots>>

Q_Return ==
    /\ pc \in {"gt_ret", "ts_ret"}
    /\ pc' = "idle"
    /\ arg' = ""
    /\ found' = [some |-> FALSE, tool |-> NoTool]
    /\ specs' = <<>>
    /\ pre' = NoSnapshot
    /\ UNCHANGED <<registry, open, fs, history, stack, path, llLocals, library,
                   scanLocals, result, llPre, ulPre>>

\* ---------------------------------------------------------- specification
Next ==
    \/ \E p \in Writable, t \in Times : \E pl \in Versions(p) : WriteFile(p, t, pl)
    \/ CallLoadFromDir
    \/ LFD_ReadDir
    \/ LFD_Next
    \/ LFD_Classify
    \/ LFD_AfterLoad
    \/ LFD_Return
    \/ \E p \in LoadPaths : CallLoadLibrary(p)
    \/ LL_Stat
    \/ LL_Open
    \/ LL_Sym
    \/ LL_Construct
    \/ LL_InsertTool
    \/ LL_InsertLib
    \/ LL_Return
    \/ \E p \in LoadPaths : CallUnloadLibrary(p)
    \/ UL_Remove
    \/ UL_Clear
    \/ UL_Drop
    \/ UL_Return
    \/ \E n \in Names : CallGetTool(n)
    \/ GT_Get
    \/ CallToolsSpecs
    \/ TS_Collect
    \/ Q_Return

Spec == Init /\ [][Next]_vars

TypeOK ==
    /\ DOMAIN tools \subseteq Names
    /\ DOMAIN loaded_libraries \subseteq DirEntries
    /\ DOMAIN open \subseteq 1..8

\* ================================================================= claims
\* a call of load_library or unload_library has returned, or none is running
BetweenCalls == pc \in {"idle", "ll_ret", "ul_ret", "lfd_ret"}

\* the record load_library found for its path is older than the file
Reloading ==
    /\ path \in DOMAIN llPre.loaded
    /\ llPre.loaded[path].modified < fs[path].mtime

\* C1: a rescan after only the first of two loaded files (exporting "alpha"
\* and "beta") became newer leaves get_tool("alpha") resolving to a newly
\* constructed instance, get_tool("beta") to the original beta tool, and
\* tools_specs() with two records.
C1_Scenario ==
    /\ pc = "lfd_ret"
    /\ result = "Ok"
    /\ DOMAIN pre.loaded = {PathA, PathB}
    /\ DOMAIN pre.tools = {"alpha", "beta"}
    /\ pre.tools["alpha"].lib = pre.loaded[PathA].lib
    /\ pre.tools["beta"].lib = pre.loaded[PathB].lib
    /\ \A p \in DirEntries : pre.removed[p] = 0
    /\ fs[PathA].mtime > pre.loaded[PathA].modified
    /\ fs[PathB].mtime = pre.loaded[PathB].modified
    /\ fs[PathA].plugin.name = "alpha"
    /\ fs[PathB].plugin.name = "beta"

C1_ReloadKeepsUnrelated ==
    C1_Scenario =>
        /\ GetTool(tools, "alpha").some
        /\ GetTool(tools, "alpha").tool.lib \notin pre.open
        /\ GetTool(tools, "beta") = [some |-> TRUE, tool |-> pre.tools["beta"]]
        /\ \A order \in Orders(DOMAIN tools) : Len(ToolsSpecs(tools, order)) = 2

\* C2: when load_library returns an error, every tool registered before the
\* call is still registered under the same name.
C2_FailedLoadKeepsTools ==
    (pc = "ll_ret" /\ result = "Err") =>
        \A n \in DOMAIN llPre.tools : n \in DOMAIN tools /\ tools[n] = llPre.tools[n]

\* C3: no library handle is closed while a tool built from it is registered,
\* and between calls every registered tool comes from a library whose record
\* is in the path mapping.
C3_ToolsHaveLibrary ==
    /\ \A n \in DOMAIN tools : tools[n].lib \in DOMAIN open
    /\ BetweenCalls =>
          \A n \in DOMAIN tools :
              \E p \in DOMAIN loaded_libraries : loaded_libraries[p].lib = tools[n].lib

\* a reload has returned: the old library was unloaded while two tools were
\* registered, and the new tool is in place
C3_Witness ==
    /\ pc = "ll_ret"
    /\ result = "Ok"
    /\ Reloading
    /\ Cardinality(DOMAIN llPre.tools) = 2
    /\ DOMAIN tools # {}

\* C4: load_library of a path whose record is at least as new as the file
\* succeeds and leaves the name mapping, the path mapping and the open
\* handles exactly as they were.
C4_UnmodifiedIsNoOp ==
    (/\ pc = "ll_ret"
     /\ modified # 0
     /\ path \in DOMAIN llPre.loaded
     /\ llPre.loaded[path].modified >= fs[path].mtime) =>
        /\ result = "Ok"
        /\ tools = llPre.tools
        /\ loaded_libraries = llPre.loaded
        /\ DOMAIN open = llPre.open

\* the file's time moved backwards below the record while tools are registered
C4_Witness ==
    /\ pc = "ll_ret"
    /\ modified # 0
    /\ path \in DOMAIN llPre.loaded
    /\ llPre.loaded[path].modified > fs[path].mtime
    /\ DOMAIN llPre.tools # {}

\* C5: during a reload the old record of the path is removed and its handle
\* closed before the new library is opened and before the new tool is
\* inserted, and no path ever has two open handles.
C5_OldReleasedFirst ==
    /\ \A g, h \in DOMAIN open : open[g].path = open[h].path => g = h
    /\ (pc \in {"ll_open", "ll_sym", "ll_construct", "ll_insert_tool"}
          /\ path \in DOMAIN llPre.loaded) =>
          /\ path \notin DOMAIN loaded_libraries
          /\ llPre.loaded[path].lib \notin DOMAIN open

\* a reload is about to insert the tool of the newly opened library
C5_Witness ==
    /\ pc = "ll_insert_tool"
    /\ path \in DOMAIN llPre.loaded
    /\ lib \in DOMAIN open

\* C6: after a successful load_library that actually loads (no prior record,
\* or a strictly newer file) the name mapping holds the newly constructed
\* tool under its name and the path mapping holds a record for the path with
\* the modification time read by the call.
C6_LoadRegisters ==
    (/\ pc = "ll_ret"
     /\ result = "Ok"
     /\ path \notin DOMAIN llPre.loaded \/ Reloading) =>
        /\ lib \notin llPre.open
        /\ lib \in DOMAIN open
        /\ open[lib].path = path
        /\ open[lib].plugin.name \in DOMAIN tools
        /\ tools[open[lib].plugin.name].lib = lib
        /\ tools[open[lib].plugin.name].name = open[lib].plugin.name
        /\ path \in DOMAIN loaded_libraries
        /\ loaded_libraries[path] = [modified |-> fs[path].mtime, lib |-> lib]

\* a reload succeeded for a tool name that was registered before the call
C6_Witness ==
    /\ pc = "ll_ret"
    /\ result = "Ok"
    /\ Reloading
    /\ lib \in DOMAIN open
    /\ open[lib].plugin.name \in DOMAIN llPre.tools

\* the tool the library recorded for path p was built from
SourcePlugin(p) == open[loaded_libraries[p].lib].plugin

\* only loads of paths without a record have changed the registry, and the
\* loaded libraries export pairwise distinct tool names
C7_DistinctLoads ==
    /\ ~everUnloaded
    /\ \A p, q \in DOMAIN loaded_libraries :
          SourcePlugin(p).name = SourcePlugin(q).name => p = q

\* C7: after N distinct paths producing N distinct tool names were loaded
\* into an empty registry, tools_specs() returns exactly N records, one per
\* loaded tool with its name, description and parameters, each with "type"
\* equal to "function".
C7_SpecsPerTool ==
    (pc = "ts_ret" /\ C7_DistinctLoads) =>
        /\ Len(specs) = Cardinality(DOMAIN loaded_libraries)
        /\ \A i \in 1..Len(specs) : specs[i].type = "function"
        /\ \A p \in DOMAIN loaded_libraries :
              \E i \in 1..Len(specs) :
                  /\ specs[i].function = SourcePlugin(p)
                  /\ \A j \in 1..Len(specs) : specs[j].function.name = SourcePlugin(p).name => j = i

C7_Witness ==
    /\ pc = "ts_ret"
    /\ C7_DistinctLoads
    /\ DOMAIN loaded_libraries = {PathA, PathB}
    /\ Len(specs) = 2

\* C8: get_tool(name) returns the tool registered under the name, or an
\* absent result when none is, and it reports no error.
C8_GetTool ==
    pc = "gt_ret" =>
        /\ result # "Err"
        /\ arg \in DOMAIN tools =>
              /\ found.some
              /\ found.tool = tools[arg]
              /\ found.tool.name = arg
        /\ arg \notin DOMAIN tools => ~found.some

\* a lookup found one of two registered tools
C8_Witness ==
    /\ pc = "gt_ret"
    /\ found.some
    /\ found.tool.name = "beta"
    /\ Cardinality(DOMAIN tools) = 2

\* the file name ends in a dot and the letters s, o in either case, after a
\* non-empty stem
C9_HasLibraryExtension(p) ==
    /\ Len(p) >= 4
    /\ p[Len(p) - 2] = "."
    /\ p[Len(p) - 1] \in {"s", "S"}
    /\ p[Len(p)] \in {"o", "O"}

\* C9: load_from_dir hands an entry to load_library exactly when its
\* extension is the shared-library extension in any case; any other entry is
\* skipped without error and without change to either mapping.
C9_OnlyLibrariesLoaded ==
    [][/\ (pc = "lfd_classify" /\ ~C9_HasLibraryExtension(entry)) =>
             /\ pc' = "lfd_next"
             /\ result' = result
             /\ tools' = tools
             /\ loaded_libraries' = loaded_libraries
             /\ open' = open
       /\ (pc = "lfd_classify" /\ C9_HasLibraryExtension(entry)) =>
             /\ pc' = "ll_stat"
             /\ path' = entry
       /\ (pc' = "ll_stat" /\ stack' # <<>>) => C9_HasLibraryExtension(path')]_vars

\* the scan has skipped a file without extension after loading b.SO
C9_Witness ==
    /\ pc = "lfd_next"
    /\ entry = PathD
    /\ PathB \notin entries
    /\ PathC \in entries
    /\ PathB \in DOMAIN loaded_libraries
    /\ PathB \notin DOMAIN pre.loaded

\* C10: unload_library removes the record of its path, and the next
\* load_library of that path that succeeds is a full load (library opened,
\* tool constructed and registered, time recorded) even when the file is not
\* newer than the removed record.
C10_LoadAfterUnloadIsFresh ==
    /\ (pc = "ul_ret" /\ path \in DOMAIN ulPre.loaded) =>
          /\ path \notin DOMAIN loaded_libraries
          /\ removed[path] = ulPre.loaded[path].modified
    /\ (/\ pc = "ll_ret"
        /\ result = "Ok"
        /\ path \notin DOMAIN llPre.loaded
        /\ llPre.removed[path] >= fs[path].mtime) =>
          /\ lib \notin llPre.open
          /\ lib \in DOMAIN open
          /\ tools[open[lib].plugin.name].lib = lib
          /\ loaded_libraries[path] = [modified |-> fs[path].mtime, lib |-> lib]

\* a path whose record was unloaded at a later time than the file's is
\* loaded again
C10_Witness ==
    /\ pc = "ll_ret"
    /\ result = "Ok"
    /\ path \notin DOMAIN llPre.loaded
    /\ llPre.removed[path] > fs[path].mtime
    /\ lib \in DOMAIN open

\* C11: get_tool and tools_specs are pure reads: when either returns, the
\* name mapping, the path mapping and the open handles are as they were when
\* it was called.
C11_QueriesArePure ==
    pc \in {"gt_ret", "ts_ret"} =>
        /\ tools = pre.tools
        /\ loaded_libraries = pre.loaded
        /\ DOMAIN open = pre.open

\* get_tool has found a tool in a registry of two tools and two records
C11_Witness ==
    /\ pc = "gt_ret"
    /\ found.some
    /\ Cardinality(DOMAIN pre.tools) = 2
    /\ Cardinality(DOMAIN pre.loaded) = 2

\* the path, other than the one being loaded, whose library built the tool
\* registered under name n when load_library was called
C12_OtherOwners(n) ==
    {q \in DOMAIN llPre.loaded :
        /\ q # path
        /\ n \in DOMAIN llPre.tools
        /\ llPre.tools[n].lib = llPre.loaded[q].lib}

\* C12: when a successful load from one path produces a tool whose name is
\* registered by a tool of another path, the name afterwards has exactly one
\* entry, the new tool; the other path's record and handle stay as they were,
\* open and without a reachable tool.
C12_LastLoaderWins ==
    (/\ pc = "ll_ret"
     /\ result = "Ok"
     /\ lib # NoLib) =>
        \A q \in C12_OtherOwners(open[lib].plugin.name) :
            LET n == open[lib].plugin.name
            IN /\ tools[n].lib = lib
               /\ Cardinality({k \in DOMAIN tools : tools[k].name = n}) = 1
               /\ q \in DOMAIN loaded_libraries
               /\ loaded_libraries[q] = llPre.loaded[q]
               /\ llPre.loaded[q].lib \in DOMAIN open
               /\ \A k \in DOMAIN tools : tools[k].lib # llPre.loaded[q].lib

\* b.SO, loaded for the first time, exports the name a.so's tool holds
C12_Witness ==
    /\ pc = "ll_ret"
    /\ result = "Ok"
    /\ lib # NoLib
    /\ path = PathB
    /\ path \notin DOMAIN llPre.loaded
    /\ C12_OtherOwners(open[lib].plugin.name) = {PathA}

C14_UnloadWithoutRecord ==
    (pc = "ul_ret" /\ path \notin DOMAIN ulPre.loaded) =>
        /\ tools = ulPre.tools
        /\ loaded_libraries = ulPre.loaded
        /\ DOMAIN open = ulPre.open

\* unload_library of an unloaded path, called while a tool is registered
C14_Witness ==
    /\ pc = "ul_ret"
    /\ path \notin DOMAIN ulPre.loaded
    /\ DOMAIN ulPre.tools # {}

\* C15: when reading the file's metadata or modification time fails,
\* load_library returns an error without any unload: both mappings, the open
\* handles and the removed-record history are as before the call, whether or
\* not the path had a record.
C15_MetadataErrorChangesNothing ==
    (pc = "ll_ret" /\ modified = 0) =>
        /\ result = "Err"
        /\ tools = llPre.tools
        /\ loaded_libraries = llPre.loaded
        /\ DOMAIN open = llPre.open
        /\ removed = llPre.removed

\* the metadata of a newer version of a loaded file could not be read
C15_Witness ==
    /\ pc = "ll_ret"
    /\ modified = 0
    /\ Reloading
    /\ DOMAIN llPre.tools # {}

\* the record of every entry in es is as it was when the scan began
C16_Untouched(es, loaded, before) ==
    \A e \in es :
        /\ e \in DOMAIN loaded <=> e \in DOMAIN before
        /\ e \in DOMAIN loaded => loaded[e] = before[e]

\* C16: load_from_dir stops at the first error: a directory that cannot be
\* enumerated leaves the state unchanged with no load attempted, a failed
\* load is returned at once, and no entry still to be enumerated is loaded
\* or reloaded.
C16_ScanAbortsAtFirstError ==
    [][/\ (pc = "lfd_read_dir" /\ result' = "Err") =>
             /\ pc' = "lfd_ret"
             /\ tools' = pre.tools
             /\ loaded_libraries' = pre.loaded
             /\ DOMAIN open' = pre.open
       /\ (pc = "lfd_after_load" /\ result = "Err") =>
             /\ pc' = "lfd_ret"
             /\ result' = "Err"
             /\ tools' = tools
             /\ loaded_libraries' = loaded_libraries
             /\ open' = open
       /\ (pc' = "lfd_ret" /\ result' = "Err") =>
             C16_Untouched(entries', loaded_libraries', pre'.loaded)]_vars

\* the reload of a.so failed before b.SO, which has no record, was enumerated
C16_Witness ==
    /\ pc = "lfd_ret"
    /\ result = "Err"
    /\ entry = PathA
    /\ PathA \in DOMAIN pre.loaded
    /\ PathA \notin DOMAIN loaded_libraries
    /\ PathB \in entries
    /\ PathB \notin DOMAIN loaded_libraries

\* C17: between calls the number of registered tools is at most the number
\* of library records.
C17_ToolsAtMostRecords ==
    BetweenCalls => Cardinality(DOMAIN tools) <= Cardinality(DOMAIN loaded_libraries)

\* two records remain after an unload and a reload, with one tool registered
C17_Witness ==
    /\ pc = "idle"
    /\ everUnloaded
    /\ Cardinality(DOMAIN tools) = 1
    /\ Cardinality(DOMAIN loaded_libraries) = 2

\* C18: the timestamp of a record never decreases while the record stays in
\* the path mapping or is replaced by a reload: no step changes a record that
\* it keeps, and a load_library that returns with a record different from the
\* one it found has succeeded and recorded a strictly greater time.
C18_WatermarkMonotone ==
    [][/\ \A p \in DOMAIN loaded_libraries \cap DOMAIN loaded_libraries' :
             loaded_libraries'[p] = loaded_libraries[p]
       /\ (/\ pc' = "ll_ret"
           /\ path' \in DOMAIN llPre'.loaded
           /\ path' \in DOMAIN loaded_libraries'
           /\ loaded_libraries'[path'] # llPre'.loaded[path']) =>
             /\ result' = "Ok"
             /\ loaded_libraries'[path'].modified > llPre'.loaded[path'].modified]_vars

\* a reload has replaced the record of a path by one of a later time
C18_Witness ==
    /\ pc = "ll_ret"
    /\ result = "Ok"
    /\ path \in DOMAIN llPre.loaded
    /\ path \in DOMAIN loaded_libraries
    /\ loaded_libraries[path].modified > llPre.loaded[path].modified
    /\ loaded_libraries[path].lib # llPre.loaded[path].lib

\* when load_library was called its path had a record, no registered tool was
\* built from that record's library, and the file was not newer than the record
C19_Orphaned ==
    /\ path \in DOMAIN llPre.loaded
    /\ \A n \in DOMAIN llPre.tools : llPre.tools[n].lib # llPre.loaded[path].lib
    /\ fs[path].mtime <= llPre.loaded[path].modified

\* C19: a tool that is not registered while its library's record remains is
\* not registered again by a load of its path, direct or from a scan, as long
\* as the file is not newer than the record: the load changes neither
\* mapping, and get_tool of the tool's name returns what it returned before.
C19_OrphanStaysUnregistered ==
    (pc = "ll_ret" /\ C19_Orphaned) =>
        LET h == llPre.loaded[path].lib
        IN /\ tools = llPre.tools
           /\ loaded_libraries = llPre.loaded
           /\ h \in DOMAIN open
           /\ \A n \in DOMAIN tools : tools[n].lib # h
           /\ GetTool(tools, open[h].plugin.name) = GetTool(llPre.tools, open[h].plugin.name)

\* a scan has passed a.so, whose tool another path's unload had removed, to
\* load_library, and its name is still not registered
C19_Witness ==
    /\ pc = "ll_ret"
    /\ stack # <<>>
    /\ result = "Ok"
    /\ path = PathA
    /\ C19_Orphaned
    /\ ~GetTool(tools, "alpha").some
    /\ PathB \notin DOMAIN loaded_libraries
====
